---- MODULE Spec2Model ----
(***************************************************************************)
(* Model of glumpy/app/window/window.py: the platform independent Window.  *)
(* The state is the attributes of one Window object together with what the *)
(* object acts on: the log of glumpy.log, the GL calls issued, the         *)
(* decorators handed out by timer() and the outcome of the last call.      *)
(***************************************************************************)
EXTENDS Integers, Sequences, FiniteSets, TLC

\* ------------------------------------------------------------------ bounds

\* Total number of entries the run may add to the log, the timer registry
\* and the GL call trace (one clear() counts once).
MaxOps == 2

\* Constructor arguments and callers' inputs.
Titles == {"", "demo"}
ProgNames == {"", "app.py"}
DepthSizes == {0, 16, 24}
StencilSizes == {0, 8}
Colors == {<<0, 0, 0, 1>>, <<1, 1, 1, 1>>}
Delays == {0, 1}
Funcs == {"f", "g"}
BackendNames == {"glfw", "sdl"}
Sizes == {0, 512}

\* ------------------------------------------------------------ Python values

None == [type |-> "NoneType"]
Str(s) == [type |-> "str", val |-> s]
Unset == [type |-> "unset"]
Backend(n) == [type |-> "backend", name |-> n]
Configuration(d, s) == [type |-> "Configuration", _depth_size |-> d, _stencil_size |-> s]

\* Truth value of a Python object: None and the empty string are false.
Truthy(v) == v # None /\ (v.type = "str" => v.val # "")

\* Variant of Or: title if title is not None else sys.argv[0]
Or_is_not_none(a, b) == IF a # None THEN a ELSE b

\* a or b
Or(a, b) == IF Truthy(a) THEN a ELSE b

\* a | b on non-negative integers
RECURSIVE BitOr(_, _)
BitOr(a, b) ==
    IF a = 0 THEN b
    ELSE IF b = 0 THEN a
    ELSE (IF (a % 2 = 1) \/ (b % 2 = 1) THEN 1 ELSE 0) + 2 * BitOr(a \div 2, b \div 2)

\* a & b on non-negative integers
RECURSIVE BitAnd(_, _)
BitAnd(a, b) ==
    IF a = 0 \/ b = 0 THEN 0
    ELSE (IF (a % 2 = 1) /\ (b % 2 = 1) THEN 1 ELSE 0) + 2 * BitAnd(a \div 2, b \div 2)

GL_COLOR_BUFFER_BIT == 16384
GL_DEPTH_BUFFER_BIT == 256
GL_STENCIL_BUFFER_BIT == 1024

\* --------------------------------------------------------------------- state

VARIABLES
    _mouse_x, _mouse_y, _button, _x, _y, _width, _height, _title, _visible,
    _fullscreen, _decoration, _clock, _timer_stack, _timer_date, _backend,
    color, _clearflags, _config,
    argv0, title, config,      \* sys.argv[0] and the constructor's arguments
    log,                       \* records emitted through glumpy.log
    gl_calls,                  \* calls made to glumpy.gl, in order
    decorators,                \* delays captured by the closures timer() returned
    applied,                   \* (func, delay) of each decorator application, in call order
    invoked,                   \* number of times a registered callback was called
    result                     \* the last call and how it ended

attributes == <<_mouse_x, _mouse_y, _button, _x, _y, _width, _height, _title,
                _visible, _fullscreen, _decoration, _clock, _backend, color,
                _clearflags, _config>>
registries == <<_timer_stack, _timer_date>>
arguments == <<argv0, title, config>>
vars == <<attributes, registries, arguments, log, gl_calls, decorators, applied,
          invoked, result>>

\* Number of entries added so far to the growing parts of the state.
Ops == Len(log) + Len(_timer_stack) + (Len(gl_calls) \div 2)

Returned(op, v) == [op |-> op, outcome |-> "returned", value |-> v]
Raised(op, e) == [op |-> op, outcome |-> "raised", value |-> e]

\* ------------------------------------------------------------- construction

\* Variant of ClearFlags: the stencil test reads the depth size.
ClearFlags_depth_for_stencil(cfg) ==
    LET c0 == GL_COLOR_BUFFER_BIT
        c1 == IF cfg._depth_size # 0 THEN BitOr(c0, GL_DEPTH_BUFFER_BIT) ELSE c0
        c2 == IF cfg._depth_size # 0 THEN BitOr(c1, GL_STENCIL_BUFFER_BIT) ELSE c1
    IN  c2

\* The flags Window.__init__ computes from the configuration.
ClearFlags(cfg) ==
    LET c0 == GL_COLOR_BUFFER_BIT
        c1 == IF cfg._depth_size # 0 THEN BitOr(c0, GL_DEPTH_BUFFER_BIT) ELSE c0
        c2 == IF cfg._stencil_size # 0 THEN BitOr(c1, GL_STENCIL_BUFFER_BIT) ELSE c1
    IN  c2

\* Window.__init__(width, height, title, visible, aspect, decoration,
\*                 fullscreen, config, context, color)
__init__(width, height, t, visible, decoration, fullscreen, cfg, c, prog) ==
    /\ argv0 = prog
    /\ title = t
    /\ config = cfg
    /\ _mouse_x = 0
    /\ _mouse_y = 0
    /\ _button = 0
    /\ _x = 0
    /\ _y = 0
    /\ _width = width
    /\ _height = height
    /\ _title = Or(t, Str(prog))
    /\ _visible = visible
    /\ _fullscreen = fullscreen
    /\ _decoration = decoration
    /\ _clock = None
    /\ _timer_stack = <<>>
    /\ _timer_date = <<>>
    /\ _backend = None
    /\ color = c
    /\ _clearflags = ClearFlags(cfg)
    /\ _config = Unset
    /\ log = <<>>
    /\ gl_calls = <<>>
    /\ decorators = {}
    /\ applied = <<>>
    /\ invoked = 0
    /\ result = Returned("__init__", "None")

TitleArgs == {None} \cup {Str(s) : s \in Titles}
Configs == {Configuration(d, s) : d \in DepthSizes, s \in StencilSizes}

\* Window(config=cfg), run as app.py: every other argument at its default.
Init ==
    \E cfg \in Configs :
        __init__(256, 256, None, TRUE, TRUE, FALSE, cfg, <<0, 0, 0, 1>>, "app.py")

\* Window(width, height, title, ..., config, color) over all the arguments.
New ==
    \E w \in Sizes, t \in TitleArgs, prog \in ProgNames, cfg \in Configs, c \in Colors :
        __init__(w, w, t, TRUE, TRUE, FALSE, cfg, c, prog)

\* ---------------------------------------------------------------- operations

\* The concrete backend's factory stores the backend on the window.
AttachBackend ==
    /\ _backend = None
    /\ \E n \in BackendNames : _backend' = Backend(n)
    /\ result' = Returned("setattr", "None")
    /\ UNCHANGED <<_mouse_x, _mouse_y, _button, _x, _y, _width, _height, _title,
                   _visible, _fullscreen, _decoration, _clock, color, _clearflags,
                   _config>>
    /\ UNCHANGED <<registries, arguments, log, gl_calls, decorators, applied, invoked>>

\* window.color = c
SetColor ==
    /\ \E c \in Colors : color' = c
    /\ result' = Returned("setattr", "None")
    /\ UNCHANGED <<_mouse_x, _mouse_y, _button, _x, _y, _width, _height, _title,
                   _visible, _fullscreen, _decoration, _clock, _backend, _clearflags,
                   _config>>
    /\ UNCHANGED <<registries, arguments, log, gl_calls, decorators, applied, invoked>>

\* Window.config (property)
config_get ==
    /\ result' = IF _config = Unset
                 THEN Raised("config", "AttributeError")
                 ELSE Returned("config", _config)
    /\ UNCHANGED <<attributes, registries, arguments, log, gl_calls, decorators,
                   applied, invoked>>

\* Variant of clear: glClear(GL_COLOR_BUFFER_BIT)
clear_color_only ==
    /\ Ops < MaxOps
    /\ gl_calls' = gl_calls \o <<[fn |-> "glClearColor", rgba |-> color],
                                 [fn |-> "glClear", mask |-> GL_COLOR_BUFFER_BIT]>>
    /\ result' = Returned("clear", "None")
    /\ UNCHANGED <<attributes, registries, arguments, log, decorators, applied, invoked>>

\* Window.clear
clear ==
    /\ Ops < MaxOps
    /\ gl_calls' = gl_calls \o <<[fn |-> "glClearColor", rgba |-> color],
                                 [fn |-> "glClear", mask |-> _clearflags]>>
    /\ result' = Returned("clear", "None")
    /\ UNCHANGED <<attributes, registries, arguments, log, decorators, applied, invoked>>

\* Variant of Format: the '%s' is never substituted.
Format_without_name(name, text) == <<"%s">> \o <<"backend", "cannot">> \o text

\* '%s backend cannot ...' % name: the name followed by the words of the text.
Format(name, text) == <<name>> \o <<"backend", "cannot">> \o text

\* log.warn(msg)
warn(msg) == log' = Append(log, [level |-> "WARNING", msg |-> msg])

\* Variant of stub: a missing backend is reported under the name None.
stub_checks_backend(op, text) ==
    /\ Ops < MaxOps
    /\ warn(Format(IF _backend = None THEN "None" ELSE _backend.name, text))
    /\ result' = Returned(op, "None")
    /\ UNCHANGED <<attributes, registries, arguments, gl_calls, decorators, applied,
                   invoked>>

\* The body shared by the stub methods:
\*     log.warn('%s backend cannot <text>' % self._backend.name())
\* The name is looked up before anything is logged, and None has no name().
stub(op, text) ==
    /\ IF _backend = None
       THEN /\ result' = Raised(op, "AttributeError")
            /\ UNCHANGED log
       ELSE /\ Ops < MaxOps
            /\ warn(Format(_backend.name, text))
            /\ result' = Returned(op, "None")
    /\ UNCHANGED <<attributes, registries, arguments, gl_calls, decorators, applied,
                   invoked>>

\* Window.show
show == stub("show", <<"show", "window">>)

\* Window.hide
hide == stub("hide", <<"hide", "window">>)

\* Window.close
close == stub("close", <<"close", "window">>)

\* Window.set_title
set_title == \E t \in TitleArgs : stub("set_title", <<"set", "window", "title">>)

\* Window.get_title
get_title == stub("get_title", <<"get", "window", "title">>)

\* Window.set_size
set_size == \E w \in Sizes, h \in Sizes : stub("set_size", <<"set", "window", "size">>)

\* Window.get_size
get_size == stub("get_size", <<"get", "window", "size">>)

\* Window.set_position
set_position == \E x \in Sizes, y \in Sizes : stub("set_position", <<"set", "window", "position">>)

\* Window.get_position
get_position == stub("get_position", <<"get", "position">>)

\* Window.set_fullscreen
set_fullscreen == \E fullsrceen \in BOOLEAN : stub("set_fullscreen", <<"set", "fullscreen", "mode">>)

\* Window.get_fullscreen
get_fullscreen == stub("get_fullscreen", <<"get", "fullscreen", "mode">>)

\* Window.swap
swap == stub("swap", <<"swap", "buffers">>)

\* Window.activate
activate == stub("activate", <<"make", "window", "active">>)

\* Variant of timer: the entry is made when timer(delay) is called.
timer_registers_on_call ==
    /\ Ops < MaxOps
    /\ \E delay \in Delays :
        /\ decorators' = decorators \cup {delay}
        /\ _timer_stack' = Append(_timer_stack, <<"None", delay>>)
        /\ _timer_date' = Append(_timer_date, 0)
    /\ result' = Returned("timer", "decorator")
    /\ UNCHANGED <<attributes, arguments, log, gl_calls, applied, invoked>>

\* Window.timer(delay): builds the closure, registers nothing.
timer ==
    /\ \E delay \in Delays : decorators' = decorators \cup {delay}
    /\ result' = Returned("timer", "decorator")
    /\ UNCHANGED <<attributes, registries, arguments, log, gl_calls, applied, invoked>>

\* Variant of decorator: timer_date is not extended.
decorator_without_date ==
    /\ Ops < MaxOps
    /\ \E delay \in decorators, func \in Funcs :
        /\ _timer_stack' = Append(_timer_stack, <<func, delay>>)
        /\ applied' = Append(applied, <<func, delay>>)
        /\ result' = Returned("decorator", func)
    /\ UNCHANGED <<attributes, arguments, log, gl_calls, decorators, invoked, _timer_date>>

\* Variant of decorator: the closure has no return statement.
decorator_returns_none ==
    /\ Ops < MaxOps
    /\ \E delay \in decorators, func \in Funcs :
        /\ _timer_stack' = Append(_timer_stack, <<func, delay>>)
        /\ _timer_date' = Append(_timer_date, 0)
        /\ applied' = Append(applied, <<func, delay>>)
        /\ result' = Returned("decorator", "None")
    /\ UNCHANGED <<attributes, arguments, log, gl_calls, decorators, invoked>>

\* Variant of decorator: insert(0, ...) in place of append(...).
decorator_prepends ==
    /\ Ops < MaxOps
    /\ \E delay \in decorators, func \in Funcs :
        /\ _timer_stack' = <<(<<func, delay>>)>> \o _timer_stack
        /\ _timer_date' = <<0>> \o _timer_date
        /\ applied' = Append(applied, <<func, delay>>)
        /\ result' = Returned("decorator", func)
    /\ UNCHANGED <<attributes, arguments, log, gl_calls, decorators, invoked>>

\* decorator(func), for a closure timer(delay) returned earlier
decorator ==
    /\ Ops < MaxOps
    /\ \E delay \in decorators, func \in Funcs :
        /\ _timer_stack' = Append(_timer_stack, <<func, delay>>)
        /\ _timer_date' = Append(_timer_date, 0)
        /\ applied' = Append(applied, <<func, delay>>)
        /\ result' = Returned("decorator", func)
    /\ UNCHANGED <<attributes, arguments, log, gl_calls, decorators, invoked>>

Next ==
    \/ AttachBackend \/ SetColor \/ config_get \/ clear
    \/ show \/ hide \/ close \/ set_title \/ get_title \/ set_size \/ get_size
    \/ set_position \/ get_position \/ set_fullscreen \/ get_fullscreen
    \/ swap \/ activate
    \/ timer \/ decorator

Spec == Init /\ [][Next]_vars

\* The operations that read what the constructor stored, from every
\* combination of constructor arguments.
NextNew == config_get \/ clear \/ SetColor

SpecNew == New /\ [][NextNew]_vars

\* -------------------------------------------------------------------- claims

StubOps == {"show", "hide", "close", "set_title", "get_title", "set_size",
            "get_size", "set_position", "get_position", "set_fullscreen",
            "get_fullscreen", "swap", "activate"}

\* The words by which a warning names the operation that was attempted.
OpWords(op) ==
    CASE op = "show" -> {"show"}
      [] op = "hide" -> {"hide"}
      [] op = "close" -> {"close"}
      [] op = "set_title" -> {"set", "title"}
      [] op = "get_title" -> {"get", "title"}
      [] op = "set_size" -> {"set", "size"}
      [] op = "get_size" -> {"get", "size"}
      [] op = "set_position" -> {"set", "position"}
      [] op = "get_position" -> {"get", "position"}
      [] op = "set_fullscreen" -> {"set", "fullscreen"}
      [] op = "get_fullscreen" -> {"get", "fullscreen"}
      [] op = "swap" -> {"swap"}
      [] op = "activate" -> {"active"}

Words(msg) == {msg[i] : i \in 1..Len(msg)}

IsPrefix(s, t) == Len(s) <= Len(t) /\ \A i \in 1..Len(s) : s[i] = t[i]

Last(s) == s[Len(s)]

\* C1: in every reachable state timer_stack and timer_date have the same
\* index set, so entry i of timer_date stands beside the timer registered at
\* index i of timer_stack.
C1_ParallelRegistries ==
    /\ Len(_timer_stack) = Len(_timer_date)
    /\ DOMAIN _timer_stack = DOMAIN _timer_date

C1_Witness ==
    /\ Len(_timer_stack) >= 1
    /\ Len(_timer_date) >= 1
    /\ Len(gl_calls) > 0

\* C2: applying the decorator of timer(delay), delay >= 0, to f appends
\* (f, delay) as the last element of timer_stack and 0 as the last element of
\* timer_date, nothing else, and returns f.
C2_TimerAppendsAndReturns ==
    [][result'.op = "decorator" =>
         /\ Len(applied') = Len(applied) + 1
         /\ LET f == Last(applied')[1]
                delay == Last(applied')[2]
            IN  /\ delay >= 0
                /\ _timer_stack' = Append(_timer_stack, <<f, delay>>)
                /\ _timer_date' = Append(_timer_date, 0)
                /\ result'.outcome = "returned"
                /\ result'.value = f]_vars

C2_Witness ==
    /\ result.op = "decorator"
    /\ result.value = "g"
    /\ Len(_timer_stack) = 2
    /\ _timer_stack[2] = <<"g", 1>>
    /\ _timer_date = <<0, 0>>

\* C3: timer_stack always equals the registrations in call order, and no
\* step removes, reorders or modifies an entry already registered.
C3_RegistrationOrder ==
    /\ [](_timer_stack = applied)
    /\ [][IsPrefix(_timer_stack, _timer_stack')]_vars

C3_Witness ==
    /\ _timer_stack = <<(<<"g", 1>>), (<<"f", 0>>)>>
    /\ result.op \in StubOps

\* C4: with a backend attached a stub returns normally, adds exactly one
\* warning to the log that names the backend and the operation, and changes
\* no attribute of the window and neither registry.
C4_StubWarnsOnly ==
    [][(result'.op \in StubOps /\ _backend # None) =>
         /\ result'.outcome = "returned"
         /\ Len(log') = Len(log) + 1
         /\ IsPrefix(log, log')
         /\ Last(log').level = "WARNING"
         /\ Last(log').msg[1] = _backend.name
         /\ OpWords(result'.op) \subseteq Words(Last(log').msg)
         /\ UNCHANGED <<attributes, registries>>]_vars

C4_Witness ==
    /\ _backend # None
    /\ result.op = "get_position"
    /\ result.outcome = "returned"
    /\ Len(log) = 2
    /\ Len(_timer_stack) = 0

\* C5: the constructor leaves the backend unset, and a stub called while it
\* is unset raises AttributeError, logs nothing and changes no attribute and
\* neither registry.
C5_StubWithoutBackend ==
    /\ _backend = None
    /\ [][(result'.op \in StubOps /\ _backend = None) =>
            /\ result'.outcome = "raised"
            /\ result'.value = "AttributeError"
            /\ log' = log
            /\ UNCHANGED <<attributes, registries>>]_vars

C5_Witness ==
    /\ _backend = None
    /\ result.op = "swap"
    /\ result.outcome = "raised"
    /\ Len(_timer_stack) = 1

\* The bits of GL_COLOR_BUFFER_BIT, GL_DEPTH_BUFFER_BIT, GL_STENCIL_BUFFER_BIT.
HasBit(flags, bit) == BitAnd(flags, bit) = bit

\* C6: clear_flags holds the color bit always, the depth bit iff
\* config.depth_size is nonzero, the stencil bit iff config.stencil_size is
\* nonzero, and no other bit.
C6_ClearFlags ==
    /\ HasBit(_clearflags, GL_COLOR_BUFFER_BIT)
    /\ HasBit(_clearflags, GL_DEPTH_BUFFER_BIT) <=> (config._depth_size # 0)
    /\ HasBit(_clearflags, GL_STENCIL_BUFFER_BIT) <=> (config._stencil_size # 0)
    /\ _clearflags = GL_COLOR_BUFFER_BIT
                     + (IF config._depth_size # 0 THEN GL_DEPTH_BUFFER_BIT ELSE 0)
                     + (IF config._stencil_size # 0 THEN GL_STENCIL_BUFFER_BIT ELSE 0)

C6_Witness ==
    /\ config._depth_size = 0
    /\ config._stencil_size = 8
    /\ _clearflags = 17408
    /\ result.op = "clear"

\* C7 as stated: the stored title is a non-empty string, the given title
\* when that is non-empty and the program's name otherwise.
C7_TitleNeverEmpty ==
    /\ _title.type = "str"
    /\ _title.val # ""
    /\ _title = IF title # None /\ title.val # "" THEN title ELSE Str(argv0)

\* C7 amended: the stored title is the given title when that is non-empty
\* and sys.argv[0] otherwise; it is empty exactly when no non-empty title
\* was given and sys.argv[0] is empty.
C7_TitleOrProgramName ==
    /\ _title.type = "str"
    /\ _title = IF title # None /\ title.val # "" THEN title ELSE Str(argv0)
    /\ (_title.val = "") <=> ((title = None \/ title.val = "") /\ argv0 = "")

C7_Witness ==
    /\ title = Str("")
    /\ argv0 = "app.py"
    /\ _title = Str("app.py")

\* C8: reading config on a constructed Window returns, without error, the
\* configuration that was passed to the constructor.
C8_ConfigAccessor ==
    result.op = "config" => (result.outcome = "returned" /\ result.value = config)

\* C9: no step changes clear_flags, and every clear() issues exactly
\* glClearColor with the stored color and glClear with the flags computed at
\* construction.
C9_ClearUsesConstructionFlags ==
    [][/\ _clearflags' = _clearflags
       /\ (result'.op = "clear" \/ gl_calls' # gl_calls) =>
              gl_calls' = gl_calls \o
                  <<[fn |-> "glClearColor", rgba |-> color],
                    [fn |-> "glClear", mask |-> ClearFlags(config)]>>]_vars

C9_Witness ==
    /\ result.op = "clear"
    /\ Len(gl_calls) = 2
    /\ gl_calls[1].rgba = <<1, 1, 1, 1>>
    /\ gl_calls[2].mask = 17664
    /\ Len(_timer_stack) = 1

\* C10: timer(delay) alone registers nothing; the registry holds one entry
\* per decorator application, each with the delay of the decorator applied;
\* no callback is invoked and every timer_date entry is 0.
C10_RegistersOnApplication ==
    /\ [](/\ Len(_timer_stack) = Len(applied)
          /\ \A i \in 1..Len(_timer_stack) :
                 /\ _timer_stack[i][2] = applied[i][2]
                 /\ _timer_stack[i][2] \in decorators
          /\ \A i \in 1..Len(_timer_date) : _timer_date[i] = 0
          /\ invoked = 0)
    /\ [][result'.op = "timer" => UNCHANGED <<registries, applied>>]_vars

C10_Witness ==
    /\ decorators = {1}
    /\ _timer_stack = <<(<<"f", 1>>), (<<"f", 1>>)>>
    /\ _timer_date = <<0, 0>>

====
